---- MODULE Spec2Model ----
(***************************************************************************)
(* Model of app.py: the Streamlit script that reads an uploaded CSV,       *)
(* aggregates it per ZIP code (create_full_geographic_data), left-joins    *)
(* the TIGER/Line ZCTA boundaries, offers three exports of the full table  *)
(* and renders a dissolved sample of it.                                   *)
(*                                                                         *)
(* Text is a sequence of one-character strings, so that astype(str) and    *)
(* str.zfill(5) are computed character by character.  A table cell is a    *)
(* tagged record: null (NaN), a number, or a text.  A frame is a sequence  *)
(* of rows, as a DataFrame is.                                             *)
(*                                                                         *)
(* The model covers runs in which the ZIP column and the grouping column   *)
(* are two different columns of the upload.                                *)
(***************************************************************************)
EXTENDS Integers, Sequences, FiniteSets, TLC

(***************************************************************************)
(* Text                                                                    *)
(***************************************************************************)
Digits == <<"0", "1", "2", "3", "4", "5", "6", "7", "8", "9">>

\* Characters in code-point order, as Python compares str values.
CharOrder == <<".", "0", "1", "2", "3", "4", "5", "6", "7", "8", "9",
               "A", "B", "C", "G", "N", "Y">>

IsDigit(c) == \E i \in 1..Len(Digits) : Digits[i] = c

DigitVal(c) == (CHOOSE i \in 1..Len(Digits) : Digits[i] = c) - 1

CharRank(c) == CHOOSE i \in 1..Len(CharOrder) : CharOrder[i] = c

\* A CSV field that pandas' parser reads as an integer: digits only.
IsIntText(s) == Len(s) > 0 /\ \A i \in 1..Len(s) : IsDigit(s[i])

RECURSIVE ParseInt(_)
ParseInt(s) ==
    IF Len(s) = 0 THEN 0
    ELSE 10 * ParseInt(SubSeq(s, 1, Len(s) - 1)) + DigitVal(s[Len(s)])

\* str(n) of a non-negative int: no leading zeros.
RECURSIVE IntToStr(_)
IntToStr(n) ==
    IF n < 10 THEN <<Digits[n + 1]>>
    ELSE IntToStr(n \div 10) \o <<Digits[(n % 10) + 1]>>

\* str(x) of a float64 holding a whole number: the digits, then ".0".
FloatToStr(n) == IntToStr(n) \o <<".", "0">>

\* str.zfill(width): pads on the left with "0"; never shortens.
RECURSIVE zfill(_, _)
zfill(s, width) == IF Len(s) >= width THEN s ELSE zfill(<<"0">> \o s, width)

\* Python's < on str.
RECURSIVE StrLess(_, _)
StrLess(a, b) ==
    IF Len(b) = 0 THEN FALSE
    ELSE IF Len(a) = 0 THEN TRUE
    ELSE IF a[1] # b[1] THEN CharRank(a[1]) < CharRank(b[1])
    ELSE StrLess(Tail(a), Tail(b))

\* sorted(S) for a set of str.
RECURSIVE SortedTexts(_)
SortedTexts(S) ==
    IF S = {} THEN <<>>
    ELSE LET m == CHOOSE x \in S : \A y \in S \ {x} : StrLess(x, y)
         IN  <<m>> \o SortedTexts(S \ {m})

(***************************************************************************)
(* Cells                                                                   *)
(***************************************************************************)
Null == [k |-> "null", n |-> 0, s |-> <<>>]
Num(v) == [k |-> "num", n |-> v, s |-> <<>>]
Str(t) == [k |-> "str", n |-> 0, s |-> t]

IsNull(c) == c.k = "null"

\* Range of a sequence, and the sub-sequence that satisfies a test.
Range(q) == {q[i] : i \in 1..Len(q)}

(***************************************************************************)
(* pd.read_csv (line 140)                                                  *)
(***************************************************************************)
\* The column `col` of a frame, as the sequence of its cells.
Column(rows, col) == [i \in 1..Len(rows) |-> rows[i][col]]

\* Parser dtype inference for one column of fields: all fields integers ->
\* int64; integers with blank fields -> float64 (NaN needs a float column);
\* any other text -> object.  A column of a file with no data row is object.
InferDtype(cells) ==
    IF Len(cells) = 0 THEN "object"
    ELSE IF \E i \in 1..Len(cells) : ~IsNull(cells[i]) /\ ~IsIntText(cells[i].s)
         THEN "object"
    ELSE IF \E i \in 1..Len(cells) : IsNull(cells[i]) THEN "float64"
    ELSE "int64"

ParseCell(c, dtype) ==
    IF IsNull(c) THEN Null
    ELSE IF dtype = "object" THEN c
    ELSE Num(ParseInt(c.s))

\* df = pd.read_csv(uploaded_file): the rows with every column parsed under
\* the column's inferred dtype.
read_csv(file) ==
    LET dt == [col \in file.columns |-> InferDtype(Column(file.rows, col))]
    IN  [columns |-> file.columns,
         dtype   |-> dt,
         rows    |-> [i \in 1..Len(file.rows) |->
                        [col \in file.columns |->
                            ParseCell(file.rows[i][col], dt[col])]]]

\* pd.api.types.is_numeric_dtype
is_numeric_dtype(dtype) == dtype \in {"int64", "float64"}

(***************************************************************************)
(* create_full_geographic_data, 1. data preparation (lines 40-61)          *)
(***************************************************************************)
ZipWidth == 5

\* The check of line 40.
SchemaOk(df, zipcode_column, groupby_column) ==
    zipcode_column \in df.columns /\ groupby_column \in df.columns

\* dropna(subset=..., how='all'): only the rows with every cell of the subset
\* null are dropped.
dropna_how_all(rows, subset) ==
    SelectSeq(rows, LAMBDA r : \E col \in subset : ~IsNull(r[col]))

\* DataFrame.dropna(subset=...): the rows with no null in the subset.
dropna(rows, subset) ==
    SelectSeq(rows, LAMBDA r : \A col \in subset : ~IsNull(r[col]))

\* Series.astype(str) on one non-null value of a column of the given dtype.
astype_str(c, dtype) ==
    IF dtype = "int64" THEN IntToStr(c.n)
    ELSE IF dtype = "float64" THEN FloatToStr(c.n)
    ELSE c.s

\* Line 46 on one value: .astype(str).str.zfill(5).
NormalizeZip(c, dtype) == Str(zfill(astype_str(c, dtype), ZipWidth))

\* Lines 44-46: df_clean; the ZIP column becomes an object column of text.
CleanFrame(df, zipcode_column, groupby_column) ==
    LET kept == dropna(df.rows, {zipcode_column, groupby_column})
    IN  [columns |-> df.columns,
         dtype   |-> [df.dtype EXCEPT ![zipcode_column] = "object"],
         rows    |-> [i \in 1..Len(kept) |->
                        [kept[i] EXCEPT ![zipcode_column] =
                            NormalizeZip(@, df.dtype[zipcode_column])]]]

\* Lines 49-51.
ColumnsToAggregate(include_columns, groupby_column) ==
    LET others == SelectSeq(include_columns, LAMBDA col : col # groupby_column)
    IN  IF groupby_column \in Range(others) THEN others
        ELSE Append(others, groupby_column)

\* Line 53 alone: the loop of lines 54-56 left out.
AggDictAllFirst(clean, cols, zipcode_column) ==
    [col \in {c \in Range(cols) : c # zipcode_column} |-> "first"]

\* Lines 53-56: 'first' for every column but the ZIP column, then 'sum' for
\* every column of numeric dtype.
AggDict(clean, cols, zipcode_column) ==
    LET named == {col \in Range(cols) :
                    col # zipcode_column \/ is_numeric_dtype(clean.dtype[col])}
    IN  [col \in named |->
            IF is_numeric_dtype(clean.dtype[col]) THEN "sum" ELSE "first"]

\* The value of the group's first row, null or not.
GroupFirstRow(cells) == IF Len(cells) = 0 THEN Null ELSE cells[1]

\* GroupBy 'first': the first non-null value of the group, NaN if none.
RECURSIVE GroupFirst(_)
GroupFirst(cells) ==
    IF Len(cells) = 0 THEN Null
    ELSE IF ~IsNull(cells[1]) THEN cells[1]
    ELSE GroupFirst(Tail(cells))

\* + on two non-null values of one column: addition of numbers,
\* concatenation of text.
AddCells(a, b) ==
    IF a.k = "num" /\ b.k = "num" THEN Num(a.n + b.n) ELSE Str(a.s \o b.s)

\* GroupBy 'sum': nulls are skipped; the sum starts from the first value
\* and is 0 for a group with no value.
RECURSIVE SumFrom(_, _)
SumFrom(acc, cells) ==
    IF Len(cells) = 0 THEN acc
    ELSE SumFrom(AddCells(acc, cells[1]), Tail(cells))

GroupSum(cells) ==
    LET vals == SelectSeq(cells, LAMBDA c : ~IsNull(c))
    IN  IF Len(vals) = 0 THEN Num(0) ELSE SumFrom(vals[1], Tail(vals))

Reduce(how, cells) == IF how = "sum" THEN GroupSum(cells) ELSE GroupFirst(cells)

\* The rows of one group, in frame order.
GroupRows(rows, by, key) == SelectSeq(rows, LAMBDA r : r[by] = key)

\* The group keys, sorted (groupby sorts its keys).
GroupKeys(rows, by) ==
    LET sorted == SortedTexts({r[by].s : r \in Range(rows)})
    IN  [i \in 1..Len(sorted) |-> Str(sorted[i])]

\* Line 59: df_clean.groupby(zipcode_column).agg(agg_dict).reset_index().
GroupByAgg(rows, by, agg_dict) ==
    LET keys == GroupKeys(rows, by)
    IN  [i \in 1..Len(keys) |->
            [col \in {by} \cup DOMAIN agg_dict |->
                IF col = by THEN keys[i]
                ELSE Reduce(agg_dict[col],
                            Column(GroupRows(rows, by, keys[i]), col))]]

\* DataFrame.drop_duplicates(): the first occurrence of every row.
RECURSIVE drop_duplicates(_)
drop_duplicates(rows) ==
    IF Len(rows) = 0 THEN <<>>
    ELSE LET front == drop_duplicates(SubSeq(rows, 1, Len(rows) - 1))
             last  == rows[Len(rows)]
         IN  IF last \in Range(front) THEN front ELSE Append(front, last)

\* Lines 58-61: zip_data.
Aggregate(clean, zipcode_column, groupby_column, include_columns) ==
    LET cols     == ColumnsToAggregate(include_columns, groupby_column)
        agg_dict == AggDict(clean, cols, zipcode_column)
    IN  IF DOMAIN agg_dict # {}
        THEN GroupByAgg(clean.rows, zipcode_column, agg_dict)
        ELSE drop_duplicates(
                 [i \in 1..Len(clean.rows) |->
                     [col \in {zipcode_column, groupby_column} |->
                         clean.rows[i][col]]])

(***************************************************************************)
(* create_full_geographic_data, 2. boundaries and 3. merge (lines 65-104)  *)
(***************************************************************************)
\* A geometry is a set of atomic areas; a ZCTA polygon is the one area of
\* its code.  NoGeometry is a missing geometry (None).
NoGeometry == [none |-> TRUE, parts |-> {}]
Polygon(code) == [none |-> FALSE, parts |-> {code}]

\* The ZCTA codes the model's TIGER/Line file may hold.
ZCTAUniverse == {<<"0", "0", "5", "0", "1">>, <<"0", "0", "0", "0", "1">>,
                 <<"9", "0", "2", "1", "0">>}

\* gpd.read_file of the TIGER/Line archive holding the given codes: one
\* record per ZCTA, with its code, its GEOID and its polygon.
ZctaFrame(codes) ==
    LET sorted == SortedTexts(codes)
    IN  [i \in 1..Len(sorted) |->
            [col \in {"ZCTA5CE20", "GEOID20", "geometry"} |->
                IF col = "geometry" THEN Polygon(sorted[i])
                ELSE Str(sorted[i])]]

\* Lines 90-91: the ZIP column renamed to ZCTA5CE20.
RenameZip(rows, zipcode_column) ==
    [i \in 1..Len(rows) |->
        [col \in (DOMAIN rows[i] \ {zipcode_column}) \cup {"ZCTA5CE20"} |->
            IF col = "ZCTA5CE20" THEN rows[i][zipcode_column]
            ELSE rows[i][col]]]

\* Line 96: the boundary records whose code is one of the table's codes.
FilterZcta(zcta, unique_zipcodes) ==
    SelectSeq(zcta, LAMBDA b : b["ZCTA5CE20"].s \in unique_zipcodes)

\* The right-hand columns of a left row with no match.
Missing(col) == IF col = "geometry" THEN NoGeometry ELSE Null

JoinRow(l, r, right_columns) ==
    [col \in DOMAIN l \cup right_columns |->
        IF col \in DOMAIN l THEN l[col] ELSE r[col]]

UnmatchedRow(l, right_columns) ==
    [col \in DOMAIN l \cup right_columns |->
        IF col \in DOMAIN l THEN l[col] ELSE Missing(col)]

\* how='inner': a left row with no match contributes nothing.
MergeOneInner(l, right, key, right_columns) ==
    LET matches == SelectSeq(right, LAMBDA r : r[key] = l[key])
    IN  [j \in 1..Len(matches) |-> JoinRow(l, matches[j], right_columns)]

\* The rows one left row contributes to left.merge(right, on=key, how='left').
MergeOne(l, right, key, right_columns) ==
    LET matches == SelectSeq(right, LAMBDA r : r[key] = l[key])
    IN  IF Len(matches) = 0 THEN <<UnmatchedRow(l, right_columns)>>
        ELSE [j \in 1..Len(matches) |-> JoinRow(l, matches[j], right_columns)]

\* Line 99: left.merge(right, on=key, how='left'), in the left frame's order.
RECURSIVE MergeLeft(_, _, _, _)
MergeLeft(left, right, key, right_columns) ==
    IF Len(left) = 0 THEN <<>>
    ELSE MergeOne(left[1], right, key, right_columns)
            \o MergeLeft(Tail(left), right, key, right_columns)

\* Lines 90-100: final_gdf.
FilterAndMergeFrames(zip_data_, zcta, zipcode_column) ==
    LET unique_zipcodes == {r[zipcode_column].s : r \in Range(zip_data_)}
    IN  MergeLeft(RenameZip(zip_data_, zipcode_column),
                  FilterZcta(zcta, unique_zipcodes),
                  "ZCTA5CE20", {"ZCTA5CE20", "GEOID20", "geometry"})

(***************************************************************************)
(* Exports (lines 171-174)                                                 *)
(***************************************************************************)
DropGeometry(row) == [col \in DOMAIN row \ {"geometry"} |-> row[col]]

\* GeoDataFrame.to_json(): one feature per row; a missing geometry is null.
to_json(gdf) ==
    [i \in 1..Len(gdf) |->
        [properties |-> DropGeometry(gdf[i]), geometry |-> gdf[i]["geometry"]]]

\* final_gdf.drop(columns=['geometry']).to_csv(index=False): one line per row.
to_csv(gdf) == [i \in 1..Len(gdf) |-> DropGeometry(gdf[i])]

\* create_zip_file: the shapefile's components, one record per row.
create_zip_file(gdf) ==
    [shp |-> [i \in 1..Len(gdf) |-> gdf[i]["geometry"]],
     dbf |-> [i \in 1..Len(gdf) |-> DropGeometry(gdf[i])]]

AllArtifacts == {"shapefile", "geojson", "csv"}

(***************************************************************************)
(* Sampling and dissolve (lines 199-212)                                   *)
(***************************************************************************)
SampleSize == 5

\* Series.unique(): the distinct values in order of first appearance.
unique(cells) == drop_duplicates(cells)

\* replace=True: any sequence of `size` members of groups.
ChoiceWithReplacement(groups, size) == [1..size -> Range(groups)]

\* The outcomes of np.random.choice(groups, size, replace=False): the
\* sequences of `size` different members of groups.
ChoiceWithoutReplacement(groups, size) ==
    {q \in [1..size -> Range(groups)] :
        \A i, j \in 1..size : i # j => q[i] # q[j]}

\* Lines 200-203: the possible values of sampled_groups.
SampledGroups(unique_groups) ==
    IF Len(unique_groups) > SampleSize
    THEN ChoiceWithoutReplacement(unique_groups, SampleSize)
    ELSE {unique_groups}

\* Line 205: final_gdf[final_gdf[groupby_col].isin(sampled_groups)].
IsIn(gdf, col, values) == SelectSeq(gdf, LAMBDA r : r[col] \in Range(values))

\* union_all of a group's geometries; missing geometries are skipped, and a
\* group with none is the empty geometry.
UnionAll(geoms) ==
    [none |-> FALSE,
     parts |-> UNION {geoms[i].parts : i \in 1..Len(geoms)}]

\* GeoDataFrame.dissolve(by=by, aggfunc='sum').reset_index(): one row per
\* value of `by`, sorted; every other column is reduced by 'sum'.
dissolve(gdf, by) ==
    LET keys == GroupKeys(gdf, by)
    IN  [i \in 1..Len(keys) |->
            LET group == GroupRows(gdf, by, keys[i])
            IN  [col \in DOMAIN gdf[1] |->
                    IF col = by THEN keys[i]
                    ELSE IF col = "geometry"
                         THEN UnionAll(Column(group, "geometry"))
                    ELSE Reduce("sum", Column(group, col))]]

\* The selection assigned back to final_gdf.
FinalFilteredInPlace(gdf, col, sampled) ==
    SelectSeq(gdf, LAMBDA r : r[col] \in Range(sampled))

\* Line 205 binds the selection to a new name, sampled_gdf: final_gdf
\* itself keeps every row.
FinalAfterSampling(gdf, col, sampled) == gdf

\* The artifacts in the order lines 171-174 build them.
BuildOrder == <<"geojson", "csv", "shapefile">>

\* Each download widget emitted right after its artifact is built.
OfferedAsBuilt(failed) == {BuildOrder[i] : i \in 1..(failed - 1)}

\* Lines 171-192: the three artifacts are built before the first download
\* widget is emitted, so a failure while building artifact number `failed`
\* leaves nothing offered.
OfferedOnFailure(failed) == {}

(***************************************************************************)
(* Inputs                                                                  *)
(***************************************************************************)
MaxRows == 3
MaxGroups == 6

T(str) == Str(str)

CsvRow(z, g, v) == [col \in {"zip", "state", "val"} |->
                        IF col = "zip" THEN z ELSE IF col = "state" THEN g ELSE v]

\* Rows an uploaded file is made of: the same code written "501" and
\* "00501", a code that is not a number, blank fields in every column, a
\* value column with numbers and with text.
RowPool ==
    { CsvRow(T(<<"5", "0", "1">>), T(<<"N", "Y">>), T(<<"3">>)),
      CsvRow(T(<<"0", "0", "5", "0", "1">>), T(<<"N", "Y">>), T(<<"4">>)),
      CsvRow(T(<<"0", "0", "5", "0", "1">>), T(<<"C", "A">>), T(<<"A">>)),
      CsvRow(T(<<"5", "0", "1">>), T(<<"N", "Y">>), Null),
      CsvRow(Null, T(<<"N", "Y">>), T(<<"3">>)),
      CsvRow(T(<<"9", "0", "2", "1", "0">>), Null, T(<<"4">>)),
      CsvRow(T(<<"9", "0", "2", "1", "0">>), T(<<"C", "A">>), T(<<"B">>)),
      CsvRow(T(<<"A", "1">>), T(<<"C", "A">>), T(<<"3">>)) }

SeqsUpTo(S, n) == UNION {[1..m -> S] : m \in 0..n}

\* Files of up to MaxRows rows of the pool.
PoolUploads ==
    {[columns |-> {"zip", "state", "val"}, rows |-> rows] :
        rows \in SeqsUpTo(RowPool, MaxRows)}

\* Files of n rows, each with its own code and its own group: ZIP i in
\* group "G<i>".
GroupedUploads ==
    {[columns |-> {"zip", "state", "val"},
      rows |-> [i \in 1..n |->
                  CsvRow(T(IntToStr(i)), T(<<"G">> \o IntToStr(i)), T(<<"1">>))]] :
        n \in 1..MaxGroups}

\* Files that lack the ZIP column or the grouping column.
Without(file, col) ==
    [columns |-> file.columns \ {col},
     rows |-> [i \in 1..Len(file.rows) |->
                 [c \in file.columns \ {col} |-> file.rows[i][c]]]]

IncompleteUploads ==
    {Without(f, col) : f \in {g \in GroupedUploads : Len(g.rows) = 1},
                       col \in {"zip", "state"}}

Uploads == PoolUploads \cup GroupedUploads \cup IncompleteUploads

\* The lists the multiselect of line 155 can return, for a complete file.
IncludeChoices == {<<>>, <<"val">>, <<"zip", "state", "val">>}

(***************************************************************************)
(* State                                                                   *)
(***************************************************************************)
VARIABLES
    pc,               \* where the script run stands
    uploaded_file,    \* the CSV: its header and its rows of fields
    zipcode_column,   \* arguments of create_full_geographic_data
    groupby_column,
    include_columns,
    df,               \* pd.read_csv(uploaded_file)
    zip_data,         \* the aggregated frame
    zcta_gdf,         \* the boundary frame read from the TIGER/Line archive
    final_gdf,        \* the merged frame
    geojson_string,   \* the artifacts; <<>> until built
    csv_string,
    shapefile_zip,
    offered,          \* the artifacts a download widget was emitted for
    sampled_groups,
    visual_gdf,       \* the dissolved sample
    map_rendered      \* st.pydeck_chart was called

vars == <<pc, uploaded_file, zipcode_column, groupby_column, include_columns,
          df, zip_data, zcta_gdf, final_gdf, geojson_string, csv_string,
          shapefile_zip, offered, sampled_groups, visual_gdf, map_rendered>>

NoFrame == [columns |-> {}, dtype |-> <<>>, rows |-> <<>>]
NoShapefile == [shp |-> <<>>, dbf |-> <<>>]

Init ==
    /\ pc = "upload"
    /\ uploaded_file \in Uploads
    /\ zipcode_column = "zip"
    /\ groupby_column = "state"
    /\ include_columns \in IncludeChoices
    /\ Range(include_columns) \subseteq uploaded_file.columns
    /\ (uploaded_file \in GroupedUploads => include_columns = <<"val">>)
    /\ df = NoFrame
    /\ zip_data = <<>>
    /\ zcta_gdf = <<>>
    /\ final_gdf = <<>>
    /\ geojson_string = <<>>
    /\ csv_string = <<>>
    /\ shapefile_zip = NoShapefile
    /\ offered = {}
    /\ sampled_groups = <<>>
    /\ visual_gdf = <<>>
    /\ map_rendered = FALSE

(***************************************************************************)
(* Steps of one script run                                                 *)
(***************************************************************************)
\* Line 140.
ReadCsv ==
    /\ pc = "upload"
    /\ df' = read_csv(uploaded_file)
    /\ pc' = "prepare"
    /\ UNCHANGED <<uploaded_file, zipcode_column, groupby_column,
                   include_columns, zip_data, zcta_gdf, final_gdf,
                   geojson_string, csv_string, shapefile_zip, offered,
                   sampled_groups, visual_gdf, map_rendered>>

\* Lines 40-42: a required column is missing; st.stop() ends the run.
SchemaStop ==
    /\ pc = "prepare"
    /\ ~SchemaOk(df, zipcode_column, groupby_column)
    /\ pc' = "stopped_schema"
    /\ UNCHANGED <<uploaded_file, zipcode_column, groupby_column,
                   include_columns, df, zip_data, zcta_gdf, final_gdf,
                   geojson_string, csv_string, shapefile_zip, offered,
                   sampled_groups, visual_gdf, map_rendered>>

\* Lines 44-63.
DataPreparation ==
    /\ pc = "prepare"
    /\ SchemaOk(df, zipcode_column, groupby_column)
    /\ zip_data' = Aggregate(CleanFrame(df, zipcode_column, groupby_column),
                             zipcode_column, groupby_column, include_columns)
    /\ pc' = "boundaries"
    /\ UNCHANGED <<uploaded_file, zipcode_column, groupby_column,
                   include_columns, df, zcta_gdf, final_gdf,
                   geojson_string, csv_string, shapefile_zip, offered,
                   sampled_groups, visual_gdf, map_rendered>>

\* Lines 69-82: the archive is downloaded and read.
GetBoundaries ==
    /\ pc = "boundaries"
    /\ \E codes \in SUBSET ZCTAUniverse : zcta_gdf' = ZctaFrame(codes)
    /\ pc' = "merge"
    /\ UNCHANGED <<uploaded_file, zipcode_column, groupby_column,
                   include_columns, df, zip_data, final_gdf,
                   geojson_string, csv_string, shapefile_zip, offered,
                   sampled_groups, visual_gdf, map_rendered>>

\* Lines 84-86: the download or the read raised; st.stop() ends the run.
ProviderStop ==
    /\ pc = "boundaries"
    /\ pc' = "stopped_provider"
    /\ UNCHANGED <<uploaded_file, zipcode_column, groupby_column,
                   include_columns, df, zip_data, zcta_gdf, final_gdf,
                   geojson_string, csv_string, shapefile_zip, offered,
                   sampled_groups, visual_gdf, map_rendered>>

\* Lines 88-104.
FilterAndMerge ==
    /\ pc = "merge"
    /\ final_gdf' = FilterAndMergeFrames(zip_data, zcta_gdf, zipcode_column)
    /\ pc' = "generated"
    /\ UNCHANGED <<uploaded_file, zipcode_column, groupby_column,
                   include_columns, df, zip_data, zcta_gdf,
                   geojson_string, csv_string, shapefile_zip, offered,
                   sampled_groups, visual_gdf, map_rendered>>

\* Line 165, guard false: the merged frame has no row; nothing is built.
NothingToExport ==
    /\ pc = "generated"
    /\ Len(final_gdf) = 0
    /\ pc' = "done"
    /\ UNCHANGED <<uploaded_file, zipcode_column, groupby_column,
                   include_columns, df, zip_data, zcta_gdf, final_gdf,
                   geojson_string, csv_string, shapefile_zip, offered,
                   sampled_groups, visual_gdf, map_rendered>>

\* Lines 171-174: the three artifacts are built from final_gdf.
BuildExports ==
    /\ pc = "generated"
    /\ Len(final_gdf) > 0
    /\ geojson_string' = to_json(final_gdf)
    /\ csv_string' = to_csv(final_gdf)
    /\ shapefile_zip' = create_zip_file(final_gdf)
    /\ pc' = "built"
    /\ UNCHANGED <<uploaded_file, zipcode_column, groupby_column,
                   include_columns, df, zip_data, zcta_gdf, final_gdf,
                   offered, sampled_groups, visual_gdf, map_rendered>>

\* Lines 171-174 with the build of artifact number `failed` raising: the
\* earlier artifacts are built, and line 244 reports the error.
ExportFails ==
    /\ pc = "generated"
    /\ Len(final_gdf) > 0
    /\ \E failed \in 1..Len(BuildOrder) :
        /\ geojson_string' = IF failed > 1 THEN to_json(final_gdf) ELSE <<>>
        /\ csv_string' = IF failed > 2 THEN to_csv(final_gdf) ELSE <<>>
        /\ offered' = OfferedOnFailure(failed)
    /\ pc' = "error_export"
    /\ UNCHANGED <<uploaded_file, zipcode_column, groupby_column,
                   include_columns, df, zip_data, zcta_gdf, final_gdf,
                   shapefile_zip, sampled_groups, visual_gdf, map_rendered>>

\* Lines 176-192: the three download widgets.
OfferDownloads ==
    /\ pc = "built"
    /\ offered' = AllArtifacts
    /\ pc' = "offered"
    /\ UNCHANGED <<uploaded_file, zipcode_column, groupby_column,
                   include_columns, df, zip_data, zcta_gdf, final_gdf,
                   geojson_string, csv_string, shapefile_zip,
                   sampled_groups, visual_gdf, map_rendered>>

\* Lines 199-205.
SampleGroups ==
    /\ pc = "offered"
    /\ sampled_groups' \in
           SampledGroups(unique(Column(final_gdf, groupby_column)))
    /\ final_gdf' = FinalAfterSampling(final_gdf, groupby_column, sampled_groups')
    /\ pc' = "sampled"
    /\ UNCHANGED <<uploaded_file, zipcode_column, groupby_column,
                   include_columns, df, zip_data, zcta_gdf,
                   geojson_string, csv_string, shapefile_zip, offered,
                   visual_gdf, map_rendered>>

\* Lines 205-240: the warning of line 209 when the selection has no row,
\* else the dissolve and the call of st.pydeck_chart.
DissolveAndRender ==
    /\ pc = "sampled"
    /\ LET sampled_gdf == IsIn(final_gdf, groupby_column, sampled_groups)
       IN  IF Len(sampled_gdf) = 0
           THEN UNCHANGED <<visual_gdf, map_rendered>>
           ELSE /\ visual_gdf' = dissolve(sampled_gdf, groupby_column)
                /\ map_rendered' = TRUE
    /\ pc' = "done"
    /\ UNCHANGED <<uploaded_file, zipcode_column, groupby_column,
                   include_columns, df, zip_data, zcta_gdf, final_gdf,
                   geojson_string, csv_string, shapefile_zip, offered,
                   sampled_groups>>

Next ==
    \/ ReadCsv
    \/ SchemaStop
    \/ DataPreparation
    \/ GetBoundaries
    \/ ProviderStop
    \/ FilterAndMerge
    \/ NothingToExport
    \/ BuildExports
    \/ ExportFails
    \/ OfferDownloads
    \/ SampleGroups
    \/ DissolveAndRender

Spec == Init /\ [][Next]_vars

(***************************************************************************)
(* Properties                                                              *)
(***************************************************************************)
\* zip_data has been computed.
Prepared == pc \notin {"upload", "prepare", "stopped_schema"}

\* final_gdf has been computed.
Merged == pc \in {"generated", "built", "offered", "sampled", "error_export",
                 "done"}

\* sampled_groups has been drawn.
Sampled == pc = "sampled" \/ (pc = "done" /\ offered # {})

\* The records of df with a ZIP code and a grouping value, by index.
CleanedIdx ==
    {i \in 1..Len(df.rows) :
        ~IsNull(df.rows[i][zipcode_column]) /\ ~IsNull(df.rows[i][groupby_column])}

\* The normalized code of record i.
NormCode(i) == NormalizeZip(df.rows[i][zipcode_column], df.dtype[zipcode_column])

\* The cleaned records of one code, by index.
IdxOfCode(code) == {i \in CleanedIdx : NormCode(i) = code}

RECURSIVE SumOverIdx(_, _)
SumOverIdx(I, col) ==
    IF I = {} THEN 0
    ELSE LET i == CHOOSE x \in I : TRUE
         IN  df.rows[i][col].n + SumOverIdx(I \ {i}, col)

\* C1: the aggregated frame has one row per distinct normalized code of the
\* records whose ZIP code and grouping value are both non-null; the other
\* records add no row.
C1_RowPerCleanedCode ==
    Prepared =>
        /\ Len(zip_data) = Cardinality({NormCode(i) : i \in CleanedIdx})
        /\ \A row \in Range(zip_data) :
               \E i \in CleanedIdx : NormCode(i) = row[zipcode_column]

\* A record with a ZIP code but no grouping value was dropped, and its code
\* is in no row of the aggregated frame.
C1_Witness ==
    /\ Prepared
    /\ Len(zip_data) > 0
    /\ \E i \in 1..Len(df.rows) :
        /\ ~IsNull(df.rows[i][zipcode_column])
        /\ IsNull(df.rows[i][groupby_column])
        /\ \A row \in Range(zip_data) : row[zipcode_column] # NormCode(i)

\* C2: the merge keeps every aggregated row exactly once, in order, with
\* its values; the geometry is missing exactly for the codes the boundary
\* frame does not hold.
C2_LeftJoin ==
    Merged =>
        /\ Len(final_gdf) = Len(zip_data)
        /\ \A i \in 1..Len(zip_data) :
            /\ final_gdf[i]["ZCTA5CE20"] = zip_data[i][zipcode_column]
            /\ \A col \in DOMAIN zip_data[i] \ {zipcode_column} :
                   final_gdf[i][col] = zip_data[i][col]
            /\ final_gdf[i]["geometry"].none <=>
                   (\A b \in Range(zcta_gdf) :
                        b["ZCTA5CE20"] # zip_data[i][zipcode_column])

\* The merged frame holds a row with a boundary and a row without one.
C2_Witness ==
    /\ Merged
    /\ \E r \in Range(final_gdf) : r["geometry"].none
    /\ \E r \in Range(final_gdf) : ~r["geometry"].none

\* C3: once the artifacts are offered they are the export of the merged
\* frame as it stands, also after the sampling and the dissolve: the merged
\* frame still holds every aggregated row.
C3_ExportsOfFullFrame ==
    offered # {} =>
        /\ geojson_string = to_json(final_gdf)
        /\ csv_string = to_csv(final_gdf)
        /\ shapefile_zip = create_zip_file(final_gdf)
        /\ Len(csv_string) = Len(zip_data)

\* The run ended with a map of a sample that left groups out.
C3_Witness ==
    /\ pc = "done"
    /\ map_rendered
    /\ \E r \in Range(final_gdf) : r[groupby_column] \notin Range(sampled_groups)
    /\ Len(visual_gdf) < Len(csv_string)

\* C4: a retained column of numeric dtype holds, for every code, the sum of
\* the column over the cleaned records of that code.
C4_NumericSum ==
    Prepared =>
        \A row \in Range(zip_data) :
            \A col \in DOMAIN row \ {zipcode_column} :
                is_numeric_dtype(df.dtype[col]) =>
                    row[col] = Num(SumOverIdx(IdxOfCode(row[zipcode_column]), col))

\* Two records whose codes are written differently in the file are summed
\* into one row: 3 + 4 = 7.
C4_Witness ==
    /\ Prepared
    /\ \E row \in Range(zip_data) :
        /\ "val" \in DOMAIN row
        /\ row["val"] = Num(7)
        /\ \E i, j \in IdxOfCode(row[zipcode_column]) :
               uploaded_file.rows[i][zipcode_column]
                   # uploaded_file.rows[j][zipcode_column]

\* The retained columns of object dtype of an aggregated row.
TextColumns(row) ==
    {col \in DOMAIN row \ {zipcode_column} : ~is_numeric_dtype(df.dtype[col])}

\* C5 as stated: a retained column that is not numeric holds, for every
\* code, the value of the first record of the code's group.
C5_FirstRecordValue ==
    Prepared =>
        \A row \in Range(zip_data) :
            \A col \in TextColumns(row) :
                LET I     == IdxOfCode(row[zipcode_column])
                    first == CHOOSE i \in I : \A j \in I : i <= j
                IN  row[col] = df.rows[first][col]

\* C5 amended: a retained column that is not numeric holds, for every code,
\* the first non-null value of the column among the records of the code's
\* group in input order, and null when the group has none.
C5_FirstNonNullValue ==
    Prepared =>
        \A row \in Range(zip_data) :
            \A col \in TextColumns(row) :
                LET I  == IdxOfCode(row[zipcode_column])
                    NN == {i \in I : ~IsNull(df.rows[i][col])}
                IN  IF NN = {} THEN IsNull(row[col])
                    ELSE \E i \in NN :
                            /\ \A j \in NN : i <= j
                            /\ row[col] = df.rows[i][col]

\* A group whose first record has no value in a text column and whose
\* second record has one: the row holds the second record's value.
C5_Witness ==
    /\ Prepared
    /\ \E row \in Range(zip_data) :
        \E col \in TextColumns(row) :
            LET I     == IdxOfCode(row[zipcode_column])
                first == CHOOSE i \in I : \A j \in I : i <= j
            IN  /\ IsNull(df.rows[first][col])
                /\ ~IsNull(row[col])

\* C6: every code of the aggregated frame has exactly 5 characters, and two
\* records whose codes differ only in their leading zeros are in one group.
C6_FiveCharacterCodes ==
    Prepared =>
        /\ \A row \in Range(zip_data) : Len(row[zipcode_column].s) = ZipWidth
        /\ \A i, j \in CleanedIdx :
               (zfill(uploaded_file.rows[i][zipcode_column].s, ZipWidth)
                    = zfill(uploaded_file.rows[j][zipcode_column].s, ZipWidth))
                   => NormCode(i) = NormCode(j)

\* The distinct grouping values of the merged frame.
GroupValues == {r[groupby_column] : r \in Range(final_gdf)}

\* C7: the sample holds every grouping value when there are at most 5, and
\* exactly 5 different ones, all of them grouping values of the merged
\* frame, when there are more.
C7_SampleAtMostFive ==
    Sampled =>
        /\ Len(sampled_groups) <= SampleSize
        /\ Range(sampled_groups) \subseteq GroupValues
        /\ \A i, j \in 1..Len(sampled_groups) :
               i # j => sampled_groups[i] # sampled_groups[j]
        /\ Cardinality(GroupValues) <= SampleSize =>
               Range(sampled_groups) = GroupValues
        /\ Cardinality(GroupValues) > SampleSize =>
               Len(sampled_groups) = SampleSize

\* A sample was drawn from more than 5 grouping values.
C7_Witness ==
    /\ Sampled
    /\ Cardinality(GroupValues) > SampleSize
    /\ Len(sampled_groups) = SampleSize

\* The non-null values the rows of one dissolved group hold in a column.
Contributions(d, col) ==
    {r[col] : r \in {x \in Range(final_gdf) :
                        /\ x[groupby_column] = d[groupby_column]
                        /\ ~IsNull(x[col])}}

RECURSIVE SumOfRows(_, _)
SumOfRows(rows, col) ==
    IF Len(rows) = 0 THEN 0
    ELSE rows[1][col].n + SumOfRows(Tail(rows), col)

\* C8: in a dissolved row a numeric attribute is the sum over the rows of
\* its group, and a text attribute is the value of one of those rows.
C8_DissolveSumOrRepresentative ==
    (pc = "done" /\ map_rendered) =>
        \A d \in Range(visual_gdf) :
            \A col \in DOMAIN d \ {groupby_column, "geometry"} :
                LET C == Contributions(d, col)
                IN  /\ (\E c \in C : c.k = "num") =>
                            d[col] = Num(SumOfRows(
                                GroupRows(final_gdf, groupby_column,
                                          d[groupby_column]), col))
                    /\ (\E c \in C : c.k = "str") => d[col] \in C

\* C9: the caller is offered all three artifacts or none, the three are
\* built when offered, and a run stopped by a missing column, a provider
\* failure or a failed build offers none.
C9_AllOrNothing ==
    /\ offered \in {{}, AllArtifacts}
    /\ offered = AllArtifacts =>
           /\ geojson_string = to_json(final_gdf)
           /\ csv_string # <<>>
           /\ shapefile_zip # NoShapefile
    /\ pc \in {"stopped_schema", "stopped_provider", "error_export"} =>
           offered = {}

\* The build of the shapefile archive failed after the two other artifacts
\* were built.
C9_Witness ==
    /\ pc = "error_export"
    /\ geojson_string # <<>>
    /\ csv_string # <<>>
    /\ shapefile_zip = NoShapefile

\* No row of the dissolved sample has a usable geometry.
NoUsableGeometry == \A d \in Range(visual_gdf) : d["geometry"].parts = {}

\* C10: a run whose dissolved sample has no usable geometry ends with the
\* three artifacts offered and without a map.
C10_NoMapWithoutGeometry ==
    (pc = "done" /\ Len(final_gdf) > 0 /\ NoUsableGeometry) =>
        /\ offered = AllArtifacts
        /\ ~map_rendered

====
